---- MODULE Spec2Model ----
(***************************************************************************)
(* Epoch backfill of domain-stake: the binary search for the first block   *)
(* of an epoch (findEpochStartBlock) and the loop of main() that turns a   *)
(* requested epoch range into rows of the output file.                     *)
(*                                                                         *)
(* The chain is seen through epochAt(blockNumber): the epoch index stored  *)
(* in the domain's staking summary at that block, or null.  `ledger` is    *)
(* the sequence of those values for blocks 1..head; the chain only grows.  *)
(***************************************************************************)
EXTENDS Integers, Sequences, FiniteSets, TLC

(* ------------------------------ bounds -------------------------------- *)

\* Highest block the growing chain of the backfill runs reaches.
MaxHeight == 3
\* Highest block of the arbitrary oracles the locator is run against.
MaxLocHeight == 5
\* Highest epoch index a block carries.
MaxEpoch == 2
\* Number of backfill runs (process invocations) in one behaviour.
MaxRuns == 2
\* Highest block of the chains that may lose the staking summary again.
MaxHoleHeight == 4
\* Most records in the file the dashboard fetches.
MaxDashRows == 2
\* Times live mode is switched on in one behaviour.
MaxEffects == 2
\* New heads delivered to one subscription.
MaxHeads == 1

(* ------------------------- values and helpers ------------------------- *)

\* epochAt's null: no staking summary at the block (opt.isNone).
Absent == -1

\* --from / --to given as the word 'current'.
CURRENT == -1

EpochVals == 0..MaxEpoch

OracleVals == {Absent} \cup EpochVals

\* Error classes raised by the reads and by findEpochStartBlock.
ErrKinds == {"transport", "headUnavailable", "notReached", "inconsistent"}

Ok(h) == [kind |-> "ok", h |-> h]

Err(k) == [kind |-> k, h |-> 0]

NoResult == [kind |-> "none", h |-> 0]

\* The synthetic chain of the specification's scenario: epoch 0 on blocks
\* 1..99, epoch 1 on 100..199, epoch 2 from 200, head at 250.
ScenarioLedger ==
  [h \in 1..99 |-> 0] \o [h \in 1..100 |-> 1] \o [h \in 1..51 |-> 2]

\* The chain of the specification's second scenario: no staking summary on
\* blocks 1..9, epoch 0 from block 10, head at 12.
AbsentScenarioLedger ==
  [h \in 1..9 |-> Absent] \o [h \in 1..3 |-> 0]

\* Present values never decrease with height.
Monotone(l) ==
  \A i, j \in 1..Len(l) :
    (i < j /\ l[i] # Absent /\ l[j] # Absent) => l[i] <= l[j]

\* Absent only before the domain exists: once present, always present.
AbsentPrefix(l) ==
  \A i, j \in 1..Len(l) : (i < j /\ l[i] # Absent) => l[j] # Absent

\* All sequences over S of length 1..n.
SeqsUpTo(S, n) == UNION {[1..k -> S] : k \in 1..n}

\* The first height at which l carries epoch e, 0 if there is none.
FirstHeight(l, e) ==
  LET S == {h \in 1..Len(l) : l[h] = e} IN
    IF S = {} THEN 0 ELSE CHOOSE x \in S : \A y \in S : x <= y

(* ----------------------- numbers and their strings -------------------- *)

\* An unsigned integer of any size is the sequence of its digits, most
\* significant first, without leading zeros (zero is <<0>>): in base 16 as the
\* chain holds it (u128, BN), in base 10 as toString() prints it.

\* digits * m + carry, on digits given least significant first.
RECURSIVE MulAdd(_, _, _, _)
MulAdd(d, base, m, carry) ==
  IF d = <<>>
    THEN IF carry = 0 THEN <<>>
         ELSE <<carry % base>> \o MulAdd(<<>>, base, m, carry \div base)
    ELSE LET v == d[1] * m + carry IN
           <<v % base>> \o MulAdd(Tail(d), base, m, v \div base)

Reverse(d) == [i \in 1..Len(d) |-> d[Len(d) + 1 - i]]

\* The digits in base `to` (least significant first) of the number whose
\* digits in base `from`, most significant first, are d.
RECURSIVE Rebase(_, _, _)
Rebase(d, from, to) ==
  IF d = <<>> THEN <<>>
  ELSE MulAdd(Rebase(SubSeq(d, 1, Len(d) - 1), from, to), to, from, d[Len(d)])

Digits(d, from, to) ==
  LET r == Rebase(d, from, to) IN IF r = <<>> THEN <<0>> ELSE Reverse(r)

\* BN.toString() and BigInt('0x..').toString(): the decimal string.
ToDecimalString(hex) == Digits(hex, 16, 10)

\* BigInt(decimalString), the re-parse of a stored value.
ParseDecimal(dec) == Digits(dec, 10, 16)

\* Bits of one hex digit.
BitsOf(x) == IF x >= 8 THEN 4 ELSE IF x >= 4 THEN 3 ELSE IF x >= 2 THEN 2 ELSE x

BitLength(hex) == 4 * (Len(hex) - 1) + BitsOf(hex[1])

\* Number(v): a double keeps 53 significant bits.  Digit i of hex holds the
\* bits from..(from + 3) of the number, counted from the most significant.
ToDouble(hex) ==
  [ i \in 1..Len(hex) |->
      LET from == BitsOf(hex[1]) + 4 * (i - 2) + 1
          drop == from + 3 - 53
      IN IF i = 1 \/ drop <= 0 THEN hex[i]
         ELSE IF drop >= 4 THEN 0
         ELSE hex[i] - (hex[i] % (2 ^ drop)) ]

\* A small number as the chain holds it.
RECURSIVE BigOf(_)
BigOf(n) == IF n < 16 THEN <<n>> ELSE Append(BigOf(n \div 16), n % 16)

(* --------------------------- readSummaryAt ---------------------------- *)

\* --domain, default '0'.
DOMAIN_ID == 0

\* JavaScript values that may be missing.  A key whose value is undefined is
\* left out by JSON.stringify and reads as undefined after JSON.parse: a
\* stored field that is Undefined is a key the file does not have.
Undefined == [type |-> "undefined"]

Null == [type |-> "null"]

Str(digits) == [type |-> "string", s |-> digits]

\* An unsigned integer of the chain (a BN with toString()).
Bn(hex) == [type |-> "bn", v |-> hex]

\* hash.toString() of the block at height h.
HashOf(h) == [type |-> "hash", block |-> h]

\* x ?? y
Coalesce(x, y) == IF x \in {Undefined, Null} THEN y ELSE x

\* toJSON() of an unsigned integer: a number up to 52 bits, a hex string above.
ToJSON(v) ==
  IF BitLength(v) > 52 THEN [type |-> "hex", v |-> v]
  ELSE [type |-> "number", v |-> ToDouble(v)]

\* `BigInt(v).toString()` of the branch for '0x' strings.
HexToStringAlt(v) == ToDecimalString(ToDouble(v))

HexToString(v) == ToDecimalString(v)

\* The three branches of the toJSON path of mapToObj for one value.
JsonToString(j) ==
  IF j.type = "hex" THEN HexToString(j.v) ELSE ToDecimalString(j.v)

\* mapToObj(m): m is undefined, a Map (it has entries()) of numbers to
\* unsigned integers, or a codec read through toJSON().
mapToObj(m) ==
  IF m \in {Undefined, Null} THEN [k \in {} |-> Str(<<0>>)]
  ELSE IF m.type = "map"
    THEN [k \in DOMAIN m.entries |-> Str(ToDecimalString(m.entries[k]))]
    ELSE [k \in DOMAIN m.entries |-> Str(JsonToString(ToJSON(m.entries[k])))]

\* The object readSummaryAt returns for the staking summary `opt` read at
\* height h: null when there is none.
Summary(opt, h) ==
  IF opt = Null THEN Null
  ELSE LET t == Coalesce(opt.currentTotalStake, opt.totalStake) IN
    [ type |-> "summary",
      blockNumber |-> h,
      hash |-> HashOf(h),
      epoch |-> opt.currentEpochIndex,
      totalStake |-> IF t = Undefined THEN Null ELSE Str(ToDecimalString(t.v)),
      operatorStakes |-> mapToObj(opt.currentOperators),
      rewards |-> mapToObj(opt.currentEpochRewards) ]

\* snap?.field
Field(snap, f) == IF snap \in {Undefined, Null} THEN Undefined ELSE snap[f]

(* ------------------------------ state --------------------------------- *)

VARIABLES
  ledger,            \* epochAt per block, blocks 1..Len(ledger); head = Len(ledger)
  \* findEpochStartBlock's frame
  lpc,               \* "idle" | "head" | "loop" | "done"
  target,            \* targetEpoch
  lo, hi,            \* search bounds
  probes,            \* epochAt calls made inside the while loop
  lres,              \* outcome: Ok(height) or Err(kind)
  \* main's frame
  pc,                \* "idle" | "loop" | "locStart" | "locNext" | "snapStart" |
                     \* "snapEnd" | "flush" | "exit0" | "exit1" | "killed"
  FROM, TO,          \* --from / --to: CURRENT or a number
  headEpoch,         \* the epoch read at the head when the run started
  startEpoch, endEpoch, append,
  ep, startBlock, endBlock,
  startSnap,         \* readSummaryAt(api, startBlock)
  existing, rows, lastWrittenLength,
  \* the output file OUT
  fileExists, store,
  \* bookkeeping of the current run (not program state)
  runs,              \* runs started so far
  raised,            \* error kinds raised in this run
  thrown,            \* error kind that reached main().catch, or "none"
  open,              \* epochs N whose lookup of N+1 failed with notReached
  stored,            \* epochs seen in the file at some point of this run
  writes,            \* writeFileSync calls of this run
  loaded,            \* content of the file when this run started
  \* the epoch reader (the second script): its main
  rpc,               \* "idle" | "locStart" | "locNext" | "snap" | "done" | "failed"
  TARGET_EPOCH,      \* --epoch: CURRENT when not given, or a number
  rhead,             \* head.number read when the reader starts
  repoch,            \* `epoch`: the epoch the reader reports
  rstartBlock, rendBlock, rendHash,
  confirmed,         \* the try block of the reader ended without an error
  \* one staking summary put through readSummaryAt, the file and a re-parse
  cpc,               \* "raw" | "read" | "stored" | "parsed"
  craw,              \* the staking summary as the chain holds it
  csnap,             \* what readSummaryAt returns for it
  cfile,             \* the record written for it
  cparsed,           \* the stored numbers parsed back
  \* the dashboard (src/app/page.tsx)
  dashRows,          \* `rows`: what useEpochs() fetched from the file
  liveRow,           \* the row of the latest head, or null
  mergedRows,        \* the memo of rows and liveRow
  isLive,            \* the live toggle
  liveStatus,        \* "idle" | "connecting" | "live" | "error"
  lastLiveAt,        \* null, or the time of the latest setLiveRow
  effects            \* the closures of the runs of the live effect, in order

locVars == <<lpc, target, lo, hi, probes, lres>>

mainVars == <<pc, FROM, TO, headEpoch, startEpoch, endEpoch, append, ep, startBlock,
              endBlock, startSnap, existing, rows, lastWrittenLength>>

fileVars == <<fileExists, store>>

histVars == <<runs, raised, thrown, open, stored, writes, loaded>>

readerVars == <<rpc, TARGET_EPOCH, rhead, repoch, rstartBlock, rendBlock,
                rendHash, confirmed>>

convVars == <<cpc, craw, csnap, cfile, cparsed>>

liveVars == <<isLive, liveStatus, lastLiveAt, effects>>

dashVars == <<dashRows, liveRow, mergedRows, liveVars>>

vars == <<ledger, locVars, mainVars, fileVars, histVars, readerVars, convVars,
          dashVars>>

\* The reader is not running and no summary is being converted.
ReaderIdle ==
  /\ rpc = "idle" /\ TARGET_EPOCH = CURRENT /\ rhead = 0 /\ repoch = 0
  /\ rstartBlock = 0 /\ rendBlock = 0 /\ rendHash = Null /\ confirmed = FALSE

ConvIdle ==
  /\ cpc = "raw" /\ craw = Null /\ csnap = Null /\ cfile = Null
  /\ cparsed = Null

\* The dashboard is not shown: useState([]), useState(null).
\* useState(false), useState('idle'), useState(null): no effect has run.
LiveIdle ==
  /\ isLive = FALSE /\ liveStatus = "idle" /\ lastLiveAt = Null
  /\ effects = <<>>

DashIdle ==
  /\ dashRows = <<>> /\ liveRow = Null /\ mergedRows = <<>>
  /\ LiveIdle

HeadNumber == Len(ledger)

\* epochAt(api, blockNumber), for a read that succeeds.
epochAt(h) == ledger[h]

\* What the chain holds at height h differs from height to height: the total
\* stake, the stake of operator 0 and its reward of the epoch so far.
TotalStakeAt(h) == BigOf(3 * h)

OperatorStakeAt(h) == BigOf(3 * h + 1)

RewardAt(h) == BigOf(3 * h + 2)

\* domainStakingSummary(DOMAIN_ID) at the block of height h; there is none
\* below block 1 (genesis).
RawAt(h) ==
  IF h < 1 \/ ledger[h] = Absent THEN Null
  ELSE [ currentEpochIndex |-> ledger[h],
         currentTotalStake |-> Bn(TotalStakeAt(h)),
         totalStake |-> Undefined,
         currentOperators |->
           [type |-> "map", entries |-> [k \in {0} |-> OperatorStakeAt(h)]],
         currentEpochRewards |->
           [type |-> "map", entries |-> [k \in {0} |-> RewardAt(h)]] ]

\* readSummaryAt(api, blockNumber), for a read that succeeds.
readSummaryAt(h) == Summary(RawAt(h), h)

EpochsOf(s) == {s[i].epoch : i \in 1..Len(s)}

(* ----------------------- findEpochStartBlock -------------------------- *)

\* `if (cur == null) throw`, then `if (targetEpoch > cur) throw`.
HeadGuardAlt(cur, t) ==
  IF cur = Absent THEN Err("headUnavailable")
  ELSE IF t >= cur THEN Err("notReached")
  ELSE NoResult

HeadGuard(cur, t) ==
  IF cur = Absent THEN Err("headUnavailable")
  ELSE IF t > cur THEN Err("notReached")
  ELSE NoResult

\* `if (e == null){ lo = mid + 1 } else if (e >= targetEpoch){ hi = mid }
\*  else { lo = mid + 1 }`: TRUE when the probe moves hi.
ProbeMovesHiAlt(e, t) == e # Absent /\ e > t

\* Without the null test: null >= targetEpoch compares null as 0.
ProbeNoNullTest(e, t) == IF e = Absent THEN 0 >= t ELSE e >= t

ProbeMovesHi(e, t) == e # Absent /\ e >= t

\* `if (eLo !== targetEpoch) throw`.
VerifiedAlt(eLo, t) == eLo # Absent

Verified(eLo, t) == eLo = t

\* `Math.floor((lo + hi)/2)`.
MidAlt(a, b) == (a + b + 1) \div 2

Mid(a, b) == (a + b) \div 2

\* The frame of findEpochStartBlock is gone once the call has returned or the
\* process has ended.
LocFrameGone ==
  /\ lpc' = "idle"
  /\ target' = 0 /\ lo' = 1 /\ hi' = 1 /\ probes' = 0 /\ lres' = NoResult

\* Any RPC of the frame may fail: the error propagates out of the function.
LocFail ==
  /\ lpc \in {"head", "loop"}
  /\ lpc' = "done"
  /\ lres' = Err("transport")
  /\ raised' = raised \cup {"transport"}
  /\ UNCHANGED <<ledger, target, lo, hi, probes, mainVars, fileVars,
                 runs, thrown, open, stored, writes, loaded>>
  /\ UNCHANGED <<readerVars, convVars, dashVars>>

\* getHeader, epochAt(hi) and the two guards.
LocHead ==
  /\ lpc = "head"
  /\ lo' = 1
  /\ hi' = HeadNumber
  /\ probes' = 0
  /\ LET g == HeadGuard(epochAt(HeadNumber), target) IN
       IF g = NoResult
         THEN /\ lpc' = "loop"
              /\ lres' = NoResult
              /\ UNCHANGED raised
         ELSE /\ lpc' = "done"
              /\ lres' = g
              /\ raised' = raised \cup {g.kind}
  /\ UNCHANGED <<ledger, target, mainVars, fileVars,
                 runs, thrown, open, stored, writes, loaded>>
  /\ UNCHANGED <<readerVars, convVars, dashVars>>

\* One iteration of `while (lo < hi)`.
LocProbe ==
  /\ lpc = "loop"
  /\ lo < hi
  /\ LET mid == Mid(lo, hi) IN
       IF ProbeMovesHi(epochAt(mid), target)
         THEN hi' = mid /\ lo' = lo
         ELSE lo' = mid + 1 /\ hi' = hi
  /\ probes' = probes + 1
  /\ UNCHANGED <<ledger, lpc, target, lres, mainVars, fileVars, histVars>>
  /\ UNCHANGED <<readerVars, convVars, dashVars>>

\* The read of epochAt(lo) after the loop and the check before `return lo`.
LocVerify ==
  /\ lpc = "loop"
  /\ ~(lo < hi)
  /\ lpc' = "done"
  /\ IF Verified(epochAt(lo), target)
       THEN lres' = Ok(lo) /\ UNCHANGED raised
       ELSE lres' = Err("inconsistent") /\ raised' = raised \cup {"inconsistent"}
  /\ UNCHANGED <<ledger, target, lo, hi, probes, mainVars, fileVars,
                 runs, thrown, open, stored, writes, loaded>>
  /\ UNCHANGED <<readerVars, convVars, dashVars>>

LocStep == LocHead \/ LocProbe \/ LocVerify \/ LocFail

(* A call of findEpochStartBlock on its own, against any oracle. *)

LocInit ==
  /\ ledger \in SeqsUpTo(OracleVals, MaxLocHeight)
                 \cup {ScenarioLedger, AbsentScenarioLedger}
  /\ target \in 0..(MaxEpoch + 1)
  /\ lpc = "head"
  /\ lo = 1 /\ hi = 1 /\ probes = 0 /\ lres = NoResult
  /\ pc = "idle"
  /\ FROM = 0 /\ TO = 0 /\ headEpoch = 0
  /\ startEpoch = 0 /\ endEpoch = 0 /\ append = FALSE
  /\ ep = 0 /\ startBlock = 0 /\ endBlock = 0 /\ startSnap = Null
  /\ existing = <<>> /\ rows = <<>> /\ lastWrittenLength = 0
  /\ fileExists = FALSE /\ store = <<>>
  /\ runs = 0 /\ raised = {} /\ thrown = "none"
  /\ open = {} /\ stored = {} /\ writes = 0 /\ loaded = <<>>
  /\ ReaderIdle /\ ConvIdle /\ DashIdle

SpecLocate == LocInit /\ [][LocStep]_vars

\* Every awaited read of the call is answered or fails: the call goes on.
SpecLocateFair == SpecLocate /\ WF_vars(LocStep)

(* ------------------------------ main() -------------------------------- *)

Running == pc \in {"loop", "locStart", "locNext", "snapStart", "snapEnd"}

Ended == pc \in {"exit0", "exit1", "killed"}

\* `FROM === 'current' ? headEpoch : Number(FROM ?? 0)`, and the same for TO.
ResolveEpoch(arg, he) == IF arg = CURRENT THEN he ELSE arg

\* `if (APPEND && fs.existsSync(OUT)) existing = JSON.parse(readFileSync(OUT))`.
LoadExistingAlt(a, fe, st) == <<>>

LoadExisting(a, fe, st) == IF a /\ fe THEN st ELSE <<>>

\* `endBlock = nextStart - 1`.
EndOfAlt(nextStart) == nextStart

EndOfGap(nextStart) == nextStart - 2

EndOf(nextStart) == nextStart - 1

\* The object pushed on rows; ss and es are the summaries read at the start
\* and at the end block.
NewRowAlt(e, sb, eb, ss, es) ==
  [ domainId |-> DOMAIN_ID, epoch |-> e,
    startBlock |-> sb, startHash |-> Field(ss, "hash"),
    endBlock |-> eb, endHash |-> Field(es, "hash"),
    totalStake |-> Field(ss, "totalStake"),
    operatorStakes |-> Field(ss, "operatorStakes"),
    rewards |-> Field(ss, "rewards") ]

NewRow(e, sb, eb, ss, es) ==
  [ domainId |-> DOMAIN_ID, epoch |-> e,
    startBlock |-> sb, startHash |-> Field(ss, "hash"),
    endBlock |-> eb, endHash |-> Field(es, "hash"),
    totalStake |-> Field(ss, "totalStake"),
    operatorStakes |-> Field(ss, "operatorStakes"),
    rewards |-> Field(es, "rewards") ]

\* rows.push(row)
PushAlt(r, row) == <<row>> \o r

Push(r, row) == Append(r, row)

\* The epoch whose start ends epoch e: findEpochStartBlock(api, ep + 1).
NextTargetAlt(e) == e

NextTarget(e) == e + 1

\* `if (rows.length > lastWrittenLength)` of the skip branch and the final flush.
NeedsWriteAlt(r, lwl) == TRUE

NeedsWrite(r, lwl) == Len(r) > lwl

\* `hasConfirmedEnd`: true unless findEpochStartBlock(api, ep + 1) threw.
HasConfirmedEndAlt(res) == TRUE

HasConfirmedEnd(res) == res.kind = "ok"

\* `catch { hasConfirmedEnd = false }`: the clause names no error class.
Caught(kind) == kind \in ErrKinds

\* `ep <= endEpoch`, the test of the for loop.
LoopContinuesAlt(e, endE) == e <= ledger[Len(ledger)]

LoopContinues(e, endE) == e <= endE

\* The chain grows by one block; the epoch index of a domain never decreases.
HeadAdvance ==
  /\ Len(ledger) < MaxHeight
  /\ \E v \in OracleVals :
       /\ \A i \in 1..Len(ledger) :
            ledger[i] # Absent => (v # Absent /\ ledger[i] <= v)
       /\ ledger' = Append(ledger, v)
  /\ UNCHANGED <<locVars, mainVars, fileVars, histVars>>
  /\ UNCHANGED <<readerVars, convVars, dashVars>>

\* A process is started with its arguments: lines 88-95, the head and the
\* epoch at the head.  Arguments of a process that ends here are never read.
StartRun ==
  /\ pc = "idle"
  /\ runs < MaxRuns
  /\ runs' = runs + 1
  /\ open' = {}
  /\ writes' = 0
  /\ loaded' = IF fileExists THEN store ELSE <<>>
  /\ stored' = IF fileExists THEN EpochsOf(store) ELSE {}
  /\ \E from \in {CURRENT} \cup EpochVals, to \in {CURRENT} \cup (0..(MaxEpoch + 1)),
        APPEND \in BOOLEAN :
       /\ append' = APPEND
       /\ \/ \* getHeader or the read at the head fails
             /\ pc' = "exit1"
             /\ raised' = {"transport"}
             /\ thrown' = "transport"
             /\ FROM' = 0 /\ TO' = 0 /\ headEpoch' = 0
          \/ IF epochAt(HeadNumber) = Absent
               THEN /\ pc' = "exit1"
                    /\ raised' = {"headUnavailable"}
                    /\ thrown' = "headUnavailable"
                    /\ FROM' = 0 /\ TO' = 0 /\ headEpoch' = 0
               ELSE /\ pc' = "resolve"
                    /\ raised' = {}
                    /\ thrown' = "none"
                    /\ FROM' = from /\ TO' = to
                    /\ headEpoch' = epochAt(HeadNumber)
  /\ UNCHANGED <<ledger, locVars, fileVars, startEpoch, endEpoch, ep,
                 startBlock, endBlock, startSnap, existing, rows,
                 lastWrittenLength>>
  /\ UNCHANGED <<readerVars, convVars, dashVars>>

\* Lines 97-108: the range, the records of an earlier run, rows.  FROM, TO and
\* headEpoch are not read after line 98.
ResolveRange ==
  /\ pc = "resolve"
  /\ startEpoch' = ResolveEpoch(FROM, headEpoch)
  /\ endEpoch' = ResolveEpoch(TO, headEpoch)
  /\ existing' = LoadExisting(append, fileExists, store)
  /\ rows' = existing'
  /\ lastWrittenLength' = Len(rows')
  /\ ep' = startEpoch'
  /\ pc' = "loop"
  /\ FROM' = 0 /\ TO' = 0 /\ headEpoch' = 0
  /\ UNCHANGED <<ledger, locVars, fileVars, histVars, append, startBlock,
                 endBlock, startSnap>>
  /\ UNCHANGED <<readerVars, convVars, dashVars>>

\* `ep <= endEpoch` holds: findEpochStartBlock(api, ep) is called.
LoopEnter ==
  /\ pc = "loop"
  /\ LoopContinues(ep, endEpoch)
  /\ pc' = "locStart"
  /\ lpc' = "head"
  /\ target' = ep
  /\ lres' = NoResult
  /\ UNCHANGED <<ledger, lo, hi, probes, FROM, TO, headEpoch, startEpoch, endEpoch, append, ep,
                 startBlock, endBlock, startSnap, existing, rows,
                 lastWrittenLength, fileVars, histVars>>
  /\ UNCHANGED <<readerVars, convVars, dashVars>>

\* The loop is over: the final flush, disconnect, and the process exits 0.
LoopExit ==
  /\ pc = "loop"
  /\ ~LoopContinues(ep, endEpoch)
  /\ IF NeedsWrite(rows, lastWrittenLength)
       THEN /\ fileExists' = TRUE
            /\ store' = rows
            /\ writes' = writes + 1
            /\ stored' = stored \cup EpochsOf(rows)
       ELSE UNCHANGED <<fileVars, writes, stored>>
  /\ pc' = "exit0"
  /\ ep' = 0 /\ startBlock' = 0 /\ endBlock' = 0 /\ startSnap' = Null
  /\ UNCHANGED <<ledger, locVars, FROM, TO, headEpoch, startEpoch, endEpoch, append,
                 existing, rows, lastWrittenLength,
                 runs, raised, thrown, open, loaded>>
  /\ UNCHANGED <<readerVars, convVars, dashVars>>

\* findEpochStartBlock(api, ep) has ended: its error leaves main, its height
\* becomes startBlock and findEpochStartBlock(api, ep + 1) is called in the try.
AfterLocStart ==
  /\ pc = "locStart"
  /\ lpc = "done"
  /\ IF lres.kind = "ok"
       THEN /\ startBlock' = lres.h
            /\ pc' = "locNext"
            /\ lpc' = "head"
            /\ target' = NextTarget(ep)
            /\ lres' = NoResult
            /\ lo' = 1 /\ hi' = 1 /\ probes' = 0
            /\ UNCHANGED <<ep, endBlock, startSnap, thrown>>
       ELSE /\ pc' = "exit1"
            /\ thrown' = lres.kind
            /\ LocFrameGone
            /\ ep' = 0 /\ startBlock' = 0 /\ endBlock' = 0 /\ startSnap' = Null
  /\ UNCHANGED <<ledger, FROM, TO, headEpoch, startEpoch, endEpoch, append,
                 existing, rows, lastWrittenLength, fileVars,
                 runs, raised, open, stored, writes, loaded>>
  /\ UNCHANGED <<readerVars, convVars, dashVars>>

\* findEpochStartBlock(api, ep + 1) has ended, inside try/catch: a height
\* confirms the end; a caught error skips the epoch (`continue`).
AfterLocNext ==
  /\ pc = "locNext"
  /\ lpc = "done"
  /\ LocFrameGone
  /\ open' = IF lres.kind = "notReached" THEN open \cup {ep} ELSE open
  /\ IF HasConfirmedEnd(lres)
       THEN /\ endBlock' = EndOf(lres.h)
            /\ pc' = "snapStart"
            /\ UNCHANGED <<ep, startBlock, startSnap, thrown, fileVars, writes,
                           stored, lastWrittenLength>>
       ELSE IF Caught(lres.kind)
         THEN /\ IF NeedsWrite(rows, lastWrittenLength)
                   THEN /\ fileExists' = TRUE
                        /\ store' = rows
                        /\ writes' = writes + 1
                        /\ stored' = stored \cup EpochsOf(rows)
                        /\ lastWrittenLength' = Len(rows)
                   ELSE UNCHANGED <<fileVars, writes, stored, lastWrittenLength>>
              /\ ep' = ep + 1
              /\ pc' = "loop"
              /\ startBlock' = 0 /\ endBlock' = 0 /\ startSnap' = Null
              /\ UNCHANGED thrown
         ELSE /\ pc' = "exit1"
              /\ thrown' = lres.kind
              /\ ep' = 0 /\ startBlock' = 0 /\ endBlock' = 0 /\ startSnap' = Null
              /\ UNCHANGED <<fileVars, writes, stored, lastWrittenLength>>
  /\ UNCHANGED <<ledger, FROM, TO, headEpoch, startEpoch, endEpoch,
                 append, existing, rows, runs, raised, loaded>>
  /\ UNCHANGED <<readerVars, convVars, dashVars>>

\* As ReadStartSnap, but the start side of the record is pushed and saved as
\* soon as it is known.
ReadStartSnapAlt ==
  /\ pc = "snapStart"
  /\ pc' = "snapEnd"
  /\ startSnap' = readSummaryAt(startBlock)
  /\ rows' = Push(rows, NewRow(ep, startBlock, endBlock, startSnap', Null))
  /\ fileExists' = TRUE
  /\ store' = rows'
  /\ writes' = writes + 1
  /\ stored' = stored \cup EpochsOf(rows')
  /\ lastWrittenLength' = Len(rows')
  /\ UNCHANGED <<ledger, locVars, FROM, TO, headEpoch, startEpoch, endEpoch, append, ep,
                 startBlock, endBlock, existing, runs, raised, thrown, open, loaded>>
  /\ UNCHANGED <<readerVars, convVars, dashVars>>

\* readSummaryAt(api, startBlock).
ReadStartSnap ==
  /\ pc = "snapStart"
  /\ pc' = "snapEnd"
  /\ startSnap' = readSummaryAt(startBlock)
  /\ UNCHANGED <<ledger, locVars, FROM, TO, headEpoch, startEpoch, endEpoch, append, ep,
                 startBlock, endBlock, existing, rows, lastWrittenLength, fileVars,
                 histVars>>
  /\ UNCHANGED <<readerVars, convVars, dashVars>>

\* readSummaryAt(api, endBlock), rows.push, writeFileSync, ep++.
PushAndWriteAlt ==
  /\ pc = "snapEnd"
  /\ rows' = Push(rows, NewRow(ep, startBlock, endBlock, startSnap,
                                readSummaryAt(endBlock)))
  /\ ep' = ep + 1
  /\ pc' = "loop"
  /\ startBlock' = 0 /\ endBlock' = 0 /\ startSnap' = Null
  /\ UNCHANGED <<ledger, locVars, FROM, TO, headEpoch, startEpoch, endEpoch, append,
                 existing, lastWrittenLength, fileVars, histVars>>
  /\ UNCHANGED <<readerVars, convVars, dashVars>>

\* As PushAndWrite, but an epoch with a missing summary is passed over.
PushAndWriteSkip ==
  /\ pc = "snapEnd"
  /\ IF Null \in {startSnap, readSummaryAt(endBlock)}
       THEN UNCHANGED <<rows, fileVars, writes, stored, lastWrittenLength>>
       ELSE /\ rows' = Push(rows, NewRow(ep, startBlock, endBlock, startSnap,
                                        readSummaryAt(endBlock)))
            /\ fileExists' = TRUE
            /\ store' = rows'
            /\ writes' = writes + 1
            /\ stored' = stored \cup EpochsOf(rows')
            /\ lastWrittenLength' = Len(rows')
  /\ ep' = ep + 1
  /\ pc' = "loop"
  /\ startBlock' = 0 /\ endBlock' = 0 /\ startSnap' = Null
  /\ UNCHANGED <<ledger, locVars, FROM, TO, headEpoch, startEpoch, endEpoch, append,
                 existing, runs, raised, thrown, open, loaded>>
  /\ UNCHANGED <<readerVars, convVars, dashVars>>

PushAndWrite ==
  /\ pc = "snapEnd"
  /\ rows' = Push(rows, NewRow(ep, startBlock, endBlock, startSnap,
                                readSummaryAt(endBlock)))
  /\ fileExists' = TRUE
  /\ store' = rows'
  /\ writes' = writes + 1
  /\ stored' = stored \cup EpochsOf(rows')
  /\ lastWrittenLength' = Len(rows')
  /\ ep' = ep + 1
  /\ pc' = "loop"
  /\ startBlock' = 0 /\ endBlock' = 0 /\ startSnap' = Null
  /\ UNCHANGED <<ledger, locVars, FROM, TO, headEpoch, startEpoch, endEpoch, append,
                 existing, runs, raised, thrown, open, loaded>>
  /\ UNCHANGED <<readerVars, convVars, dashVars>>

\* One of the two snapshot reads fails: the error leaves main.
SnapFail ==
  /\ pc \in {"snapStart", "snapEnd"}
  /\ pc' = "exit1"
  /\ raised' = raised \cup {"transport"}
  /\ thrown' = "transport"
  /\ ep' = 0 /\ startBlock' = 0 /\ endBlock' = 0 /\ startSnap' = Null
  /\ UNCHANGED <<ledger, locVars, FROM, TO, headEpoch, startEpoch, endEpoch, append,
                 existing, rows, lastWrittenLength, fileVars,
                 runs, open, stored, writes, loaded>>
  /\ UNCHANGED <<readerVars, convVars, dashVars>>

\* The process is killed (or the machine stops) at any await of the run.
Crash ==
  /\ Running
  /\ pc' = "killed"
  /\ LocFrameGone
  /\ ep' = 0 /\ startBlock' = 0 /\ endBlock' = 0 /\ startSnap' = Null
  /\ UNCHANGED <<ledger, FROM, TO, headEpoch, startEpoch, endEpoch, append, existing, rows,
                 lastWrittenLength, fileVars, histVars>>
  /\ UNCHANGED <<readerVars, convVars, dashVars>>

\* The process has ended and its memory is released; the file stays.
ProcessGone ==
  /\ Ended
  /\ pc' = "idle"
  /\ FROM' = 0 /\ TO' = 0 /\ headEpoch' = 0
  /\ startEpoch' = 0 /\ endEpoch' = 0 /\ append' = FALSE
  /\ ep' = 0 /\ startBlock' = 0 /\ endBlock' = 0 /\ startSnap' = Null
  /\ existing' = <<>> /\ rows' = <<>> /\ lastWrittenLength' = 0
  /\ raised' = {} /\ thrown' = "none"
  /\ open' = {} /\ stored' = {} /\ writes' = 0 /\ loaded' = <<>>
  /\ UNCHANGED <<ledger, locVars, fileVars, runs>>
  /\ UNCHANGED <<readerVars, convVars, dashVars>>

Init ==
  /\ ledger \in {<<v>> : v \in OracleVals} \cup {ScenarioLedger}
  /\ lpc = "idle"
  /\ target = 0 /\ lo = 1 /\ hi = 1 /\ probes = 0 /\ lres = NoResult
  /\ pc = "idle"
  /\ FROM = 0 /\ TO = 0 /\ headEpoch = 0
  /\ startEpoch = 0 /\ endEpoch = 0 /\ append = FALSE
  /\ ep = 0 /\ startBlock = 0 /\ endBlock = 0 /\ startSnap = Null
  /\ existing = <<>> /\ rows = <<>> /\ lastWrittenLength = 0
  /\ fileExists = FALSE /\ store = <<>>
  /\ runs = 0 /\ raised = {} /\ thrown = "none"
  /\ open = {} /\ stored = {} /\ writes = 0 /\ loaded = <<>>
  /\ ReaderIdle /\ ConvIdle /\ DashIdle

Next ==
  \/ HeadAdvance
  \/ StartRun
  \/ ResolveRange
  \/ LoopEnter
  \/ LoopExit
  \/ LocHead
  \/ LocProbe
  \/ LocVerify
  \/ LocFail
  \/ AfterLocStart
  \/ AfterLocNext
  \/ ReadStartSnap
  \/ PushAndWrite
  \/ SnapFail
  \/ Crash
  \/ ProcessGone

Spec == Init /\ [][Next]_vars

\* Runs that meet no RPC failure and are not killed.
NextNoFault ==
  \/ HeadAdvance
  \/ StartRun
  \/ ResolveRange
  \/ LoopEnter
  \/ LoopExit
  \/ LocHead
  \/ LocProbe
  \/ LocVerify
  \/ AfterLocStart
  \/ AfterLocNext
  \/ ReadStartSnap
  \/ PushAndWrite
  \/ ProcessGone

SpecNoFault == Init /\ [][NextNoFault]_vars

\* A chain on which the staking summary may be missing at any block (a read
\* that returns None after blocks that had one); present epochs never decrease.
HeadAdvanceAny ==
  /\ Len(ledger) < MaxHoleHeight
  /\ \E v \in OracleVals :
       /\ Monotone(Append(ledger, v))
       /\ ledger' = Append(ledger, v)
  /\ UNCHANGED <<locVars, mainVars, fileVars, histVars>>
  /\ UNCHANGED <<readerVars, convVars, dashVars>>

\* One run is followed, on a chain that starts with one block and no file.
InitHoles ==
  /\ ledger \in {<<v>> : v \in OracleVals}
  /\ lpc = "idle"
  /\ target = 0 /\ lo = 1 /\ hi = 1 /\ probes = 0 /\ lres = NoResult
  /\ pc = "idle"
  /\ FROM = 0 /\ TO = 0 /\ headEpoch = 0
  /\ startEpoch = 0 /\ endEpoch = 0 /\ append = FALSE
  /\ ep = 0 /\ startBlock = 0 /\ endBlock = 0 /\ startSnap = Null
  /\ existing = <<>> /\ rows = <<>> /\ lastWrittenLength = 0
  /\ fileExists = FALSE /\ store = <<>>
  /\ runs = MaxRuns - 1 /\ raised = {} /\ thrown = "none"
  /\ open = {} /\ stored = {} /\ writes = 0 /\ loaded = <<>>
  /\ ReaderIdle /\ ConvIdle /\ DashIdle

NextHoles ==
  \/ HeadAdvanceAny
  \/ StartRun
  \/ ResolveRange
  \/ LoopEnter
  \/ LoopExit
  \/ LocHead
  \/ LocProbe
  \/ LocVerify
  \/ AfterLocStart
  \/ AfterLocNext
  \/ ReadStartSnap
  \/ PushAndWrite
  \/ ProcessGone

SpecHoles == InitHoles /\ [][NextHoles]_vars

(* -------------------------- the epoch reader -------------------------- *)

\* The reader has its own copy of findEpochStartBlock, with the same guards,
\* loop and check: its calls run through LocHead, LocProbe, LocVerify, LocFail.

\* The reader starts: the head, the epoch at the head, the epoch to report,
\* and the call findEpochStartBlock(api, DOMAIN_ID, epoch).
ReaderStart ==
  /\ rpc = "idle"
  /\ lpc = "idle"
  /\ \E arg \in {CURRENT} \cup (0..(MaxEpoch + 1)) :
       /\ TARGET_EPOCH' = arg
       /\ rhead' = HeadNumber
       /\ IF epochAt(HeadNumber) = Absent
            THEN /\ rpc' = "failed"
                 /\ repoch' = 0
                 /\ UNCHANGED locVars
            ELSE /\ rpc' = "locStart"
                 /\ repoch' = ResolveEpoch(arg, epochAt(HeadNumber))
                 /\ lpc' = "head"
                 /\ target' = repoch'
                 /\ lres' = NoResult
                 /\ UNCHANGED <<lo, hi, probes>>
  /\ UNCHANGED <<ledger, mainVars, fileVars, histVars, convVars, dashVars,
                 rstartBlock, rendBlock, rendHash, confirmed>>

\* The start is located (or the error ends the reader); the try block calls
\* findEpochStartBlock(api, DOMAIN_ID, epoch + 1).
ReaderAfterLocStart ==
  /\ rpc = "locStart"
  /\ lpc = "done"
  /\ IF lres.kind = "ok"
       THEN /\ rstartBlock' = lres.h
            /\ rpc' = "locNext"
            /\ lpc' = "head"
            /\ target' = repoch + 1
            /\ lres' = NoResult
            /\ lo' = 1 /\ hi' = 1 /\ probes' = 0
       ELSE /\ rpc' = "failed"
            /\ LocFrameGone
            /\ UNCHANGED rstartBlock
  /\ UNCHANGED <<ledger, mainVars, fileVars, histVars, convVars, dashVars,
                 TARGET_EPOCH, rhead, repoch, rendBlock, rendHash, confirmed>>

\* The try block ends: `endBlock = nextStartBlock - 1`, or, in the catch,
\* `endBlock = head.number.toNumber(); endHash = head.hash.toString()`.
ReaderAfterLocNext ==
  /\ rpc = "locNext"
  /\ lpc = "done"
  /\ LocFrameGone
  /\ rpc' = "snap"
  /\ IF lres.kind = "ok"
       THEN /\ rendBlock' = lres.h - 1
            /\ rendHash' = HashOf(lres.h - 1)
            /\ confirmed' = TRUE
       ELSE /\ rendBlock' = rhead
            /\ rendHash' = HashOf(rhead)
            /\ confirmed' = FALSE
  /\ UNCHANGED <<ledger, mainVars, fileVars, histVars, convVars, dashVars,
                 TARGET_EPOCH, rhead, repoch, rstartBlock>>

\* The two summaries are read and reported; a missing one is a TypeError.
ReaderReport ==
  /\ rpc = "snap"
  /\ rpc' = IF Null \in {RawAt(rstartBlock), RawAt(rendBlock)}
              THEN "failed" ELSE "done"
  /\ UNCHANGED <<ledger, locVars, mainVars, fileVars, histVars, convVars, dashVars,
                 TARGET_EPOCH, rhead, repoch, rstartBlock, rendBlock,
                 rendHash, confirmed>>

NextReader ==
  \/ HeadAdvance
  \/ ReaderStart
  \/ LocHead
  \/ LocProbe
  \/ LocVerify
  \/ LocFail
  \/ ReaderAfterLocStart
  \/ ReaderAfterLocNext
  \/ ReaderReport

SpecReader == Init /\ [][NextReader]_vars

(* --------------- one summary, read, stored and re-parsed -------------- *)

F(n) == [i \in 1..n |-> 15]

Z(n) == [i \in 1..n |-> 0]

\* Unsigned integers as the chain may hold them: 0, 2^52 - 1, 2^53 + 1, 2^64
\* and 2^128 - 1.
BigVals == { <<0>>, F(13), <<2>> \o Z(12) \o <<1>>, <<1>> \o Z(16), F(32) }

\* A table of the summary: missing, a Map (BTreeMap), or a codec that is read
\* through toJSON().
Tables(ids) ==
  {Undefined} \cup
  { [type |-> t, entries |-> f] : t \in {"map", "codec"}, f \in [ids -> BigVals] }

\* The total stake under either of its names, or under none.
StakeNames ==
  { [cur |-> Undefined, old |-> Undefined] } \cup
  { [cur |-> Bn(v), old |-> Undefined] : v \in BigVals } \cup
  { [cur |-> Undefined, old |-> Bn(v)] : v \in BigVals }

RawSummaries ==
  { [ currentEpochIndex |-> 0,
      currentTotalStake |-> n.cur,
      totalStake |-> n.old,
      currentOperators |-> ops,
      currentEpochRewards |-> rew ] :
    n \in StakeNames, ops \in Tables({0, 1}) \cup Tables({0}),
    rew \in Tables({0}) }

InitConv ==
  /\ ledger = <<0>>
  /\ lpc = "idle"
  /\ target = 0 /\ lo = 1 /\ hi = 1 /\ probes = 0 /\ lres = NoResult
  /\ pc = "idle"
  /\ FROM = 0 /\ TO = 0 /\ headEpoch = 0
  /\ startEpoch = 0 /\ endEpoch = 0 /\ append = FALSE
  /\ ep = 0 /\ startBlock = 0 /\ endBlock = 0 /\ startSnap = Null
  /\ existing = <<>> /\ rows = <<>> /\ lastWrittenLength = 0
  /\ fileExists = FALSE /\ store = <<>>
  /\ runs = 0 /\ raised = {} /\ thrown = "none"
  /\ open = {} /\ stored = {} /\ writes = 0 /\ loaded = <<>>
  /\ ReaderIdle /\ DashIdle
  /\ cpc = "raw" /\ craw \in RawSummaries
  /\ csnap = Null /\ cfile = Null /\ cparsed = Null

\* readSummaryAt on the summary.
ConvRead ==
  /\ cpc = "raw"
  /\ cpc' = "read"
  /\ csnap' = Summary(craw, 1)
  /\ UNCHANGED <<ledger, locVars, mainVars, fileVars, histVars, readerVars, dashVars,
                 craw, cfile, cparsed>>

\* The record pushed for it and written by JSON.stringify (strings as they are).
ConvStore ==
  /\ cpc = "read"
  /\ cpc' = "stored"
  /\ cfile' = NewRow(0, 1, 1, csnap, csnap)
  /\ UNCHANGED <<ledger, locVars, mainVars, fileVars, histVars, readerVars, dashVars,
                 craw, csnap, cparsed>>

\* BigInt(x) on a stored value.
ParseField(x) == IF x.type = "string" THEN Bn(ParseDecimal(x.s)) ELSE x

ParseTable(t) == [k \in DOMAIN t |-> ParseField(t[k])]

\* A consumer parses the stored numbers with BigInt.
ConvParse ==
  /\ cpc = "stored"
  /\ cpc' = "parsed"
  /\ cparsed' = [ totalStake |-> ParseField(cfile.totalStake),
                  operatorStakes |-> ParseTable(cfile.operatorStakes),
                  rewards |-> ParseTable(cfile.rewards) ]
  /\ UNCHANGED <<ledger, locVars, mainVars, fileVars, histVars, readerVars, dashVars,
                 craw, csnap, cfile>>

NextConv == ConvRead \/ ConvStore \/ ConvParse

SpecConv == InitConv /\ [][NextConv]_vars

(* ---------------- claims about findEpochStartBlock -------------------- *)

LocDone == lpc = "done"

\* C1: boundary correctness. Against an oracle whose present values never
\* decrease, a height h returned for target satisfies epochAt(h) = target, and
\* h = 1 or epochAt(h - 1) is less than target or Absent. When Absent occurs
\* only as a prefix and the target epoch occurs on the chain, the call returns
\* (unless an RPC fails), and the height is the first one of that epoch. On the
\* scenario chain locateStart(1) = 100 and locateStart(2) = 200.
C1_BoundaryCorrect ==
  /\ (LocDone /\ lres.kind = "ok" /\ Monotone(ledger)) =>
        /\ epochAt(lres.h) = target
        /\ \/ lres.h = 1
           \/ epochAt(lres.h - 1) = Absent
           \/ epochAt(lres.h - 1) < target
  /\ (LocDone /\ lres.kind # "transport" /\ Monotone(ledger)
        /\ AbsentPrefix(ledger) /\ FirstHeight(ledger, target) # 0) =>
        lres = Ok(FirstHeight(ledger, target))
  /\ (LocDone /\ lres.kind # "transport" /\ ledger = ScenarioLedger) =>
        /\ target = 1 => lres = Ok(100)
        /\ target = 2 => lres = Ok(200)

C1_Witness ==
  /\ LocDone /\ ledger = ScenarioLedger /\ target = 1 /\ lres = Ok(100)

\* C2: against any oracle, monotone or not, with or without Absent holes, a
\* returned height carries exactly the target epoch; a search that ends on a
\* height carrying anything else raises the inconsistent-search error.
C2_NeverWrongHeight ==
  /\ (LocDone /\ lres.kind = "ok") => epochAt(lres.h) = target
  /\ (LocDone /\ lres.kind \notin {"transport", "headUnavailable", "notReached"}
        /\ epochAt(lo) # target) => lres = Err("inconsistent")

C2_Witness ==
  /\ LocDone /\ ~Monotone(ledger) /\ ~AbsentPrefix(ledger)
  /\ lres = Err("inconsistent") /\ epochAt(lo) # Absent /\ epochAt(lo) > target

\* C5: a head without a staking summary gives the head-unavailable error, a
\* target above the head's epoch gives the not-yet-reached error; both come
\* from the head probe, with no probe of the search loop made and no height
\* returned (an RPC failure aside).
C5_HeadErrors ==
  (LocDone /\ lres.kind # "transport") =>
     /\ epochAt(HeadNumber) = Absent => (lres = Err("headUnavailable") /\ probes = 0)
     /\ (epochAt(HeadNumber) # Absent /\ target > epochAt(HeadNumber)) =>
           (lres = Err("notReached") /\ probes = 0)
     /\ lres.kind = "headUnavailable" => epochAt(HeadNumber) = Absent
     /\ lres.kind = "notReached" => target > epochAt(HeadNumber)

C5_Witness ==
  /\ LocDone /\ lres = Err("notReached") /\ HeadNumber > 2 /\ probes = 0
  /\ FirstHeight(ledger, target) # 0

\* Absent on heights 1..k-1, present and non-decreasing from height k.
AbsentThenPresent(l) == AbsentPrefix(l) /\ Monotone(l) /\ l[1] = Absent

\* C13: Absent prefix. Against an oracle that is Absent on heights 1..k-1 and
\* present and non-decreasing from k, a call for an epoch that occurs returns
\* the first height carrying it and raises nothing (an RPC failure aside);
\* every probe of the loop that reads Absent sets lo = mid + 1 and leaves hi.
\* With Absent on 1..9 and epoch 0 from 10, locateStart(0) returns 10.
C13_AbsentResult ==
  /\ (LocDone /\ lres.kind # "transport" /\ AbsentThenPresent(ledger)
        /\ FirstHeight(ledger, target) # 0) =>
        /\ lres.kind = "ok"
        /\ lres.h = FirstHeight(ledger, target)
        /\ raised = {}
  /\ (LocDone /\ lres.kind # "transport" /\ ledger = AbsentScenarioLedger
        /\ target = 0) => lres = Ok(10)

C13_AbsentProbe ==
  (lpc = "loop" /\ lo < hi /\ epochAt(Mid(lo, hi)) = Absent /\ probes' # probes)
     => (lo' = Mid(lo, hi) + 1 /\ hi' = hi)

C13_AbsentPrefix == []C13_AbsentResult /\ [][C13_AbsentProbe]_vars

C13_Witness ==
  /\ LocDone /\ ledger = AbsentScenarioLedger /\ target = 0 /\ lres = Ok(10)
  /\ probes > 0

(* ----------------------- claims about main() -------------------------- *)

IsPrefix(a, b) == Len(a) <= Len(b) /\ \A i \in 1..Len(a) : a[i] = b[i]

StrictlyAscending(s) == \A i, j \in 1..Len(s) : i < j => s[i].epoch < s[j].epoch

\* The first block at which epoch e is observed on the chain (0 if none).
FirstBlock(e) == FirstHeight(ledger, e)

\* The records appended to rows by the current run.
Appended == SubSeq(rows, Len(existing) + 1, Len(rows))

\* C3: no premature completion. An epoch N whose lookup of N + 1 failed in this
\* run because N + 1 is beyond the head's epoch is in the file at no point of
\* the run, and every record in the file is for an epoch whose successor has
\* started on the chain.
C3_NoPrematureCompletion ==
  /\ open \cap stored = {}
  /\ \A i \in 1..Len(store) : FirstBlock(store[i].epoch + 1) # 0

C3_Witness ==
  /\ pc = "exit0" /\ open # {} /\ writes > 0 /\ stored # {}
  /\ \E n \in open : n - 1 \in stored

\* The block range of a record.
Blocks(r) == [epoch |-> r.epoch, startBlock |-> r.startBlock, endBlock |-> r.endBlock]

\* C4: every record in the file for epoch N starts at the first block at which
\* N is observed and ends one block before the first block at which N + 1 is
\* observed. On the scenario chain a first run over [0,1] that meets no RPC
\* failure leaves exactly the records 0: 1..99 and 1: 100..199, and no run
\* writes a record for epoch 2.
C4_RecordBounds ==
  /\ \A i \in 1..Len(store) :
       /\ FirstBlock(store[i].epoch) # 0
       /\ store[i].startBlock = FirstBlock(store[i].epoch)
       /\ FirstBlock(store[i].epoch + 1) # 0
       /\ store[i].endBlock = FirstBlock(store[i].epoch + 1) - 1
  /\ (ledger = ScenarioLedger /\ runs = 1 /\ pc = "exit0" /\ raised = {}
        /\ startEpoch = 0 /\ endEpoch = 1) =>
        /\ Len(store) = 2
        /\ Blocks(store[1]) = [epoch |-> 0, startBlock |-> 1, endBlock |-> 99]
        /\ Blocks(store[2]) = [epoch |-> 1, startBlock |-> 100, endBlock |-> 199]
  /\ ledger = ScenarioLedger => 2 \notin EpochsOf(store)

C4_Witness ==
  /\ ledger = ScenarioLedger /\ runs = 1 /\ pc = "exit0" /\ raised = {}
  /\ startEpoch = 0 /\ endEpoch = 1 /\ Len(store) = 2
  /\ store[2].endBlock = 199

\* C6: durability after every completed epoch. At every point of a run, and
\* after the run was killed or failed, the file holds rows whole as soon as
\* the run has appended a record: each append is followed at once by a write
\* of the whole sequence.
C6_Durable ==
  /\ Len(rows) > Len(existing) => (fileExists /\ store = rows)
  /\ Len(rows) > Len(existing) => writes = Len(rows) - Len(existing)

C6_Witness ==
  /\ pc = "killed" /\ append /\ Len(existing) = 1 /\ Len(Appended) = 1
  /\ fileExists /\ store = rows

\* C7 (as claimed): once the lookup of a successor has failed as not yet
\* reached, the run processes no further epoch and exits normally, whatever
\* the requested range (RPC failures aside).
C7_StopsNormally ==
  (open # {} /\ "transport" \notin raised /\ pc # "killed") =>
     /\ pc \notin {"locStart", "locNext", "snapStart", "snapEnd", "exit1"}
     /\ thrown = "none"

\* C8 (as claimed): a transport, head-unavailable or inconsistent-search error
\* raised anywhere in a run ends the run with that error surfaced; only the
\* not-yet-reached condition leaves the epoch open.
C8_FatalSurfaced ==
  (pc \in {"exit0", "exit1"}
     /\ raised \cap {"transport", "headUnavailable", "inconsistent"} # {}) =>
     /\ pc = "exit1"
     /\ thrown \in {"transport", "headUnavailable", "inconsistent"}

\* C9 (as claimed): after a second run in append mode that loaded the whole
\* output of the first, the file has strictly ascending epochs, none twice,
\* whatever the two ranges.
C9_ResumeNoDuplicates ==
  (runs = 2 /\ append /\ pc = "exit0" /\ loaded = existing) =>
     StrictlyAscending(store)

\* C10: in append mode the records loaded at the start of the run are an
\* unchanged prefix of everything the run writes, and what follows them are
\* records this run completed: one per epoch of the requested range that was
\* not left open, in the order of the loop.
C10_AppendFrame ==
  (append /\ pc # "idle" /\ fileExists) =>
     /\ IsPrefix(loaded, store)
     /\ \A i \in (Len(loaded) + 1)..Len(store) :
          /\ store[i].epoch \in startEpoch..endEpoch
          /\ store[i].epoch \notin open
          /\ store[i] = rows[i]
     /\ writes = Len(store) - Len(loaded)

C10_Witness ==
  /\ append /\ Running /\ Len(loaded) > 0 /\ Len(store) > Len(loaded)
  /\ IsPrefix(loaded, store)

\* The sequence the run last wrote, or took as written when it started
\* (rows up to lastWrittenLength).
LastWritten == SubSeq(rows, 1, lastWrittenLength)

\* C11: partial progress is never rolled back. Every step of a run either
\* leaves the file alone or writes the sequence last written extended by
\* exactly one record; a step on which an error is thrown (or the process is
\* killed) leaves the file alone, so that after a failure the file still holds
\* the sequence of the last successful write.
C11_WriteExtends ==
  (pc # "idle" /\ pc' # "idle") =>
     \/ UNCHANGED <<fileExists, store, writes>>
     \/ /\ writes' = writes + 1
        /\ fileExists'
        /\ Len(store') = lastWrittenLength + 1
        /\ SubSeq(store', 1, lastWrittenLength) = LastWritten
        /\ writes > 0 => SubSeq(store', 1, Len(store)) = store
        /\ pc' \notin {"exit1", "killed"}
        /\ thrown' = "none"

C11_AfterFailure ==
  (pc \in {"exit1", "killed"}) =>
     /\ writes > 0 => (fileExists /\ store = rows /\ store = LastWritten)
     /\ writes = 0 => store = loaded

C11_NoRollback == []C11_AfterFailure /\ [][C11_WriteExtends]_vars

C11_Witness ==
  /\ pc = "exit1" /\ thrown # "none" /\ writes = 2
  /\ store = rows /\ Len(store) = Len(loaded) + 2

\* C16: 'current' is resolved once. A run reads the epoch at the head when it
\* starts; a --from or --to given as 'current' becomes that epoch, also if the
\* head has moved on by then, and a number is taken as it is. From then on
\* startEpoch and endEpoch never change, whatever the head does, ep only goes
\* up by one, and every epoch the loop works on lies in startEpoch..endEpoch.
C16_ReadAtStart ==
  (pc = "idle" /\ pc' = "resolve") => headEpoch' = epochAt(HeadNumber)

C16_Resolved ==
  (pc = "resolve" /\ pc' # "resolve") =>
     /\ pc' = "loop"
     /\ startEpoch' = (IF FROM = CURRENT THEN headEpoch ELSE FROM)
     /\ endEpoch' = (IF TO = CURRENT THEN headEpoch ELSE TO)
     /\ ep' = startEpoch'

C16_RangeStable ==
  /\ (pc = "resolve" /\ pc' = "resolve") => UNCHANGED <<FROM, TO, headEpoch>>
  /\ (pc \notin {"idle", "resolve"} /\ pc' # "idle") =>
        /\ UNCHANGED <<startEpoch, endEpoch>>
        /\ (Running /\ Running') => (ep' = ep \/ ep' = ep + 1)

C16_InRange ==
  (pc \in {"locStart", "locNext", "snapStart", "snapEnd"}) =>
     (startEpoch <= ep /\ ep <= endEpoch)

C16_CurrentOnce ==
  /\ []C16_InRange
  /\ [][C16_ReadAtStart /\ C16_Resolved /\ C16_RangeStable]_vars

\* Both arguments are 'current' and the head has reached a later epoch since
\* the run read it.
C16_Witness ==
  /\ pc = "resolve" /\ FROM = CURRENT /\ TO = CURRENT
  /\ epochAt(HeadNumber) # Absent /\ headEpoch < epochAt(HeadNumber)

\* C14: in every record of the file, startHash, totalStake and operatorStakes
\* are those of the summary at the record's startBlock and endHash and rewards
\* are those of the summary at its endBlock: whatever the head is by now, and
\* although the chain holds other values at every other height.  It holds of
\* the file the first run finds, every step that changes the file leaves it
\* true of the new file, and no step changes what the chain holds at a height
\* it already has.
C14_SourcesOf(file) ==
  \A i \in 1..Len(file) :
    LET r == file[i]
        ss == readSummaryAt(r.startBlock)
        es == readSummaryAt(r.endBlock)
    IN /\ r.startHash = HashOf(r.startBlock)
       /\ r.totalStake = ss.totalStake
       /\ r.totalStake = Str(ToDecimalString(TotalStakeAt(r.startBlock)))
       /\ r.operatorStakes = ss.operatorStakes
       /\ r.endHash = HashOf(r.endBlock)
       /\ r.rewards = es.rewards
       /\ r.rewards[0] = Str(ToDecimalString(RewardAt(r.endBlock)))

C14_ChainKept ==
  \/ ledger' = ledger
  \/ Len(ledger') > Len(ledger) /\ SubSeq(ledger', 1, Len(ledger)) = ledger

C14_Written ==
  store' # store =>
    /\ ledger' = ledger
    /\ \A file \in {store'} : C14_SourcesOf(file)

C14_SnapshotSources ==
  /\ C14_SourcesOf(store)
  /\ [][C14_ChainKept /\ C14_Written]_vars

C14_Witness ==
  /\ ledger = ScenarioLedger /\ Len(store) = 2
  /\ store[2].startBlock = 100 /\ store[2].endBlock = 199
  /\ store[2].totalStake = Str(<<3, 0, 0>>)
  /\ store[2].operatorStakes = [k \in {0} |-> Str(<<3, 0, 1>>)]
  /\ store[2].rewards = [k \in {0} |-> Str(<<5, 9, 9>>)]

\* A field taken from a summary that may be missing.
Taken(snap, f) == IF snap = Null THEN Undefined ELSE snap[f]

\* C15: a missing summary does not stop the run. When the read at startBlock
\* or at endBlock finds no staking summary, the record of the epoch is still
\* appended and written, with the fields of that read left out (and the fields
\* of the other read present), and the loop goes on to the next epoch.
C15_FieldsOfAbsent ==
  \A i \in 1..Len(store) :
    LET r == store[i]
        ss == readSummaryAt(r.startBlock)
        es == readSummaryAt(r.endBlock)
    IN /\ r.startHash = Taken(ss, "hash")
       /\ r.totalStake = Taken(ss, "totalStake")
       /\ r.operatorStakes = Taken(ss, "operatorStakes")
       /\ r.endHash = Taken(es, "hash")
       /\ r.rewards = Taken(es, "rewards")

C15_StillWritten ==
  (pc = "snapEnd" /\ pc' # pc) =>
     /\ Len(rows') = Len(rows) + 1
     /\ SubSeq(rows', 1, Len(rows)) = rows
     /\ rows'[Len(rows')].epoch = ep
     /\ fileExists' /\ store' = rows'
     /\ pc' = "loop" /\ ep' = ep + 1 /\ thrown' = "none"

C15_AbsentSnapshot == []C15_FieldsOfAbsent /\ [][C15_StillWritten]_vars

C15_Witness ==
  /\ pc = "snapEnd" /\ ep = 1 /\ Len(store) = 1 /\ writes = 1
  /\ store[1].epoch = 0
  /\ epochAt(store[1].endBlock) = Absent
  /\ store[1].rewards = Undefined /\ store[1].endHash = Undefined
  /\ store[1].totalStake # Undefined

\* C17: startBlock <= endBlock in every record that is pushed or stored, on
\* every chain whose present epochs never decrease, with or without blocks
\* that lack a summary, and however the head grows during the run.
C17_StartBeforeEnd ==
  /\ \A i \in 1..Len(store) : store[i].startBlock <= store[i].endBlock
  /\ \A i \in 1..Len(rows) : rows[i].startBlock <= rows[i].endBlock
  /\ pc \in {"snapStart", "snapEnd"} => (1 <= startBlock /\ startBlock <= endBlock)

C17_Witness ==
  /\ writes = 1 /\ Len(store) = 1
  /\ store[1].epoch = startEpoch
  /\ store[1].startBlock = store[1].endBlock
  /\ ~AbsentPrefix(ledger)

\* What load() gives: the records of the file, none when there is no file.
Persisted == IF fileExists THEN store ELSE <<>>

\* C18 (as claimed): when a run ends normally the store holds exactly the
\* sequence the run accumulated (the records it loaded, then the records it
\* completed), with or without --append, also when it completed no epoch.
C18_StoreIsAccumulated ==
  pc = "exit0" => Persisted = rows

LastEpoch(s) == s[Len(s)].epoch

\* C19: a run that finds the file in strictly ascending epoch order and, when
\* it appends to a file that has records, starts past the epoch of the last
\* one, leaves the file in strictly ascending epoch order at every point (no
\* epoch twice); a file that does not exist yet is in order. So the order
\* holds after any number of such runs.
C19_AscendingKept ==
  (pc # "idle" /\ StrictlyAscending(loaded)
     /\ ((append /\ loaded # <<>>) => startEpoch > LastEpoch(loaded)))
     => StrictlyAscending(store)

C19_Witness ==
  /\ runs = 2 /\ append /\ pc = "exit0" /\ loaded # <<>>
  /\ startEpoch > LastEpoch(loaded) /\ Len(store) > Len(loaded)
  /\ StrictlyAscending(store)

\* C12 (as claimed): an end block is held for an epoch only when the start of
\* the next epoch was located, and it is that start minus one; no path of the
\* backfill or of the reader takes the head height or the head hash as the
\* end of an epoch whose successor could not be located.
C12_NoHeadAsEnd ==
  /\ (pc \in {"snapStart", "snapEnd"}) =>
        (FirstBlock(ep + 1) # 0 /\ endBlock = FirstBlock(ep + 1) - 1)
  /\ (rpc \in {"snap", "done"}) =>
        /\ confirmed
        /\ FirstBlock(repoch + 1) # 0
        /\ rendBlock = FirstBlock(repoch + 1) - 1

\* A decimal string: digits 0..9, no leading zero.
IsDecimal(x) ==
  /\ x.type = "string"
  /\ Len(x.s) >= 1
  /\ \A i \in 1..Len(x.s) : x.s[i] \in 0..9
  /\ Len(x.s) > 1 => x.s[1] # 0

\* The entries of a table of the chain, none when the table is missing.
EntriesOf(t) == IF t = Undefined THEN [k \in {} |-> <<0>>] ELSE t.entries

\* C20: round trip of large integers. Every total stake, operator stake and
\* reward written for a summary is a decimal string, and parsing it back as an
\* integer of any size gives exactly the value the chain holds, for values
\* below and above 2^53, for a Map and for a codec read through toJSON(), and
\* under either name of the total stake.
C20_RoundTrip ==
  (cpc \in {"stored", "parsed"}) =>
     LET t == Coalesce(craw.currentTotalStake, craw.totalStake)
         ops == EntriesOf(craw.currentOperators)
         rew == EntriesOf(craw.currentEpochRewards)
     IN /\ IF t = Undefined THEN cfile.totalStake = Null
                            ELSE IsDecimal(cfile.totalStake)
        /\ DOMAIN cfile.operatorStakes = DOMAIN ops
        /\ DOMAIN cfile.rewards = DOMAIN rew
        /\ \A k \in DOMAIN ops : IsDecimal(cfile.operatorStakes[k])
        /\ \A k \in DOMAIN rew : IsDecimal(cfile.rewards[k])
        /\ cpc = "parsed" =>
             /\ t # Undefined => cparsed.totalStake = t
             /\ \A k \in DOMAIN ops : cparsed.operatorStakes[k] = Bn(ops[k])
             /\ \A k \in DOMAIN rew : cparsed.rewards[k] = Bn(rew[k])

C20_Witness ==
  /\ cpc = "parsed"
  /\ craw.totalStake = Bn(F(32))
  /\ craw.currentOperators # Undefined
  /\ craw.currentOperators.type = "codec"
  /\ DOMAIN craw.currentOperators.entries = {0, 1}
  /\ craw.currentOperators.entries[1] = <<2>> \o Z(12) \o <<1>>
  /\ cfile.operatorStakes[1] = Str(<<9, 0, 0, 7, 1, 9, 9, 2, 5, 4, 7, 4, 0, 9, 9, 3>>)
  /\ cparsed.operatorStakes[1] = Bn(<<2>> \o Z(12) \o <<1>>)
  /\ cparsed.totalStake = Bn(F(32))

(* ---------------------- claims on one run's records ------------------- *)

\* C21 (as claimed): the epochs of the records one run appends are
\* startEpoch, startEpoch + 1, ... without a gap: after an epoch of the range
\* was passed over, no record of a later epoch is appended in that run.
C21_GapFree ==
  \A i \in 1..Len(Appended) : Appended[i].epoch = startEpoch + i - 1

\* The least k with 2^k >= n, for n >= 1.
RECURSIVE CeilLog2(_)
CeilLog2(n) == IF n <= 1 THEN 0 ELSE 1 + CeilLog2((n + 1) \div 2)

\* C22: the binary search of findEpochStartBlock. In every iteration
\* 1 <= lo <= hi <= head; every iteration, whichever branch it takes, makes
\* hi - lo strictly smaller; the iterations made plus those still needed for
\* the interval lo..hi never exceed ceil(log2(head)); the loop ends with
\* lo = hi; and the call does end, for every oracle and every head height.
C22_Bounds ==
  /\ lpc = "loop" =>
       /\ 1 <= lo /\ lo <= hi /\ hi <= HeadNumber
       /\ probes + CeilLog2(hi - lo + 1) <= CeilLog2(HeadNumber)
  /\ (lpc = "done" /\ lres.kind \in {"ok", "inconsistent"}) =>
       /\ lo = hi
       /\ probes <= CeilLog2(HeadNumber)

C22_Decreases ==
  (lpc = "loop" /\ probes' = probes + 1) =>
     /\ hi' - lo' < hi - lo
     /\ lo' <= hi'

C22_SearchTerminates ==
  /\ []C22_Bounds
  /\ [][C22_Decreases]_vars
  /\ <>(lpc = "done")

\* The search over the 250 blocks of the scenario took ceil(log2(250)) = 8
\* iterations.
C22_Witness ==
  /\ ledger = ScenarioLedger /\ lpc = "done" /\ lres = Ok(1)
  /\ lo = hi /\ probes = 8 /\ CeilLog2(HeadNumber) = 8

\* A record with every field of an assembled epoch: both heights, both hashes,
\* the stakes of the start block and the rewards of the end block.  The fields
\* of one side come from one read and are present or left out together, so
\* the tables are looked into only when the hash of their side is there.
Whole(r) ==
  /\ 1 <= r.startBlock /\ r.startBlock <= r.endBlock
  /\ r.startHash = HashOf(r.startBlock)
  /\ r.endHash = HashOf(r.endBlock)
  /\ r.totalStake.type = "string"
  /\ r.operatorStakes[0].type = "string"
  /\ r.rewards[0].type = "string"

\* C23: a record reaches the file only as a whole, after both snapshot reads.
\* At every point of a run, killed or not, every record of the file and of
\* rows has all its fields; while an epoch is between its two snapshot reads
\* nothing of it is in rows or in the file; the step of the start read leaves
\* the file alone; and the step that ends the end read puts the whole record
\* of that epoch at the end of the file.
C23_AllWhole ==
  /\ \A i \in 1..Len(store) : Whole(store[i])
  /\ \A i \in 1..Len(rows) : Whole(rows[i])
  /\ pc \in {"snapStart", "snapEnd"} =>
       /\ Len(rows) = lastWrittenLength
       /\ \A i \in 1..Len(Appended) : Appended[i].epoch # ep
       /\ (fileExists /\ writes > 0) => store = rows

C23_WriteAfterBoth ==
  /\ pc = "snapStart" => UNCHANGED <<rows, fileVars>>
  /\ (pc = "snapEnd" /\ store' # store) =>
       /\ pc' = "loop"
       /\ store' = Append(rows, store'[Len(store')])
       /\ store'[Len(store')].epoch = ep
       /\ store'[Len(store')].startBlock = startBlock
       /\ store'[Len(store')].endBlock = endBlock

C23_WholeRecords == []C23_AllWhole /\ [][C23_WriteAfterBoth]_vars

\* The run is between the two snapshot reads of epoch 1 (where it may also be
\* killed), after it has written epoch 0: the file holds the whole record of
\* epoch 0 and nothing of epoch 1.
C23_Witness ==
  /\ pc = "snapEnd" /\ ep = 1 /\ startSnap # Null
  /\ writes = 1 /\ Len(store) = 1 /\ store = rows
  /\ store[1].epoch = 0 /\ Whole(store[1])

(* ------------------ the epoch index and its field names --------------- *)

\* A number held by a codec (it has toNumber()), a JS number, and NaN.
Codec(n) == [type |-> "codec", n |-> n]

Num(n) == [type |-> "number", n |-> n]

NaN == [type |-> "NaN"]

\* `typeof epoch?.toNumber === 'function' ? epoch.toNumber() : Number(epoch)`:
\* Number(undefined) is NaN and Number(null) is 0.
ToNumber(x) ==
  IF x = Undefined THEN NaN
  ELSE IF x = Null THEN Num(0)
  ELSE Num(x.n)

\* `s.currentEpochIndex ?? s.epochIndex ?? s.epoch`.
EpochField(s) == Coalesce(Coalesce(s.currentEpochIndex, s.epochIndex), s.epoch)

\* epochAt of the backfill on what domainStakingSummary returned:
\* `sum?.epoch ?? null`, with sum.epoch the number of readSummaryAt.
EpochAtOf(opt) ==
  IF opt = Null THEN Null ELSE Coalesce(ToNumber(EpochField(opt)), Null)

\* readEpochIndexAt of the reader: readSummaryAtBlockNumber ends the chain of
\* names with `?? null`, and the number is made of that.
ReadEpochIndexAtOf(opt) ==
  IF opt = Null THEN Null ELSE ToNumber(Coalesce(EpochField(opt), Null))

\* The epoch index under each of its names: left out, or a number.
AliasVals == {Undefined} \cup {Codec(n) : n \in EpochVals}

\* What domainStakingSummary may return: none, or a summary that has the
\* epoch index under any of the three names, or under none.
AliasSummaries ==
  {Null} \cup [ currentEpochIndex : AliasVals, epochIndex : AliasVals,
                epoch : AliasVals ]

InitAlias ==
  /\ ledger = <<0>>
  /\ lpc = "idle"
  /\ target = 0 /\ lo = 1 /\ hi = 1 /\ probes = 0 /\ lres = NoResult
  /\ pc = "idle"
  /\ FROM = 0 /\ TO = 0 /\ headEpoch = 0
  /\ startEpoch = 0 /\ endEpoch = 0 /\ append = FALSE
  /\ ep = 0 /\ startBlock = 0 /\ endBlock = 0 /\ startSnap = Null
  /\ existing = <<>> /\ rows = <<>> /\ lastWrittenLength = 0
  /\ fileExists = FALSE /\ store = <<>>
  /\ runs = 0 /\ raised = {} /\ thrown = "none"
  /\ open = {} /\ stored = {} /\ writes = 0 /\ loaded = <<>>
  /\ ReaderIdle /\ DashIdle
  /\ cpc = "raw" /\ craw \in AliasSummaries
  /\ csnap = Null /\ cfile = Null /\ cparsed = Null

\* The backfill reads the epoch of the summary.
AliasEpochAt ==
  /\ cpc = "raw"
  /\ cpc' = "epochAt"
  /\ csnap' = EpochAtOf(craw)
  /\ UNCHANGED <<ledger, locVars, mainVars, fileVars, histVars, readerVars, dashVars,
                 craw, cfile, cparsed>>

\* The reader reads the epoch of the summary.
AliasReadEpochIndexAt ==
  /\ cpc = "raw"
  /\ cpc' = "readEpochIndexAt"
  /\ csnap' = ReadEpochIndexAtOf(craw)
  /\ UNCHANGED <<ledger, locVars, mainVars, fileVars, histVars, readerVars, dashVars,
                 craw, cfile, cparsed>>

NextAlias == AliasEpochAt \/ AliasReadEpochIndexAt

SpecAlias == InitAlias /\ [][NextAlias]_vars

\* The first name, in the order of the code, under which s has the epoch.
FirstAlias(s) ==
  IF s.currentEpochIndex # Undefined THEN s.currentEpochIndex
  ELSE IF s.epochIndex # Undefined THEN s.epochIndex
  ELSE s.epoch

\* C24 (as claimed): the epoch read at a height is null exactly when there is
\* no staking summary there; when there is one, it is the integer found under
\* the first present name of currentEpochIndex, epochIndex, epoch; and a
\* summary with none of the names is not given a valid epoch number.  For the
\* epochAt of the backfill and the readEpochIndexAt of the reader.
C24_EpochOfSummary ==
  (cpc \in {"epochAt", "readEpochIndexAt"}) =>
     /\ (csnap = Null) <=> (craw = Null)
     /\ craw # Null =>
          IF FirstAlias(craw) # Undefined
            THEN csnap = Num(FirstAlias(craw).n)
            ELSE csnap.type # "number"

(* --------------------- claims on heights across calls ----------------- *)

\* C25: head independence. Whatever the head was when a call of
\* findEpochStartBlock read it, a height it returns for an epoch is the first
\* block of that epoch on the chain, and it agrees with every height returned
\* for the same epoch before, at a lower head, in this run or in an earlier
\* one: with the startBlock of every record of that epoch and with endBlock + 1
\* of every record of the epoch before it, in rows and in the file.
C25_HeadIndependent ==
  (lpc = "done" /\ lres.kind = "ok") =>
     /\ lres.h = FirstBlock(target)
     /\ \A i \in 1..Len(rows) :
          /\ rows[i].epoch = target => rows[i].startBlock = lres.h
          /\ rows[i].epoch + 1 = target => rows[i].endBlock + 1 = lres.h
     /\ \A i \in 1..Len(store) :
          /\ store[i].epoch = target => store[i].startBlock = lres.h
          /\ store[i].epoch + 1 = target => store[i].endBlock + 1 = lres.h

\* The second run has located epoch 1 on three blocks; the file of the first
\* run has the record of epoch 0, whose end was found by locating epoch 1 when
\* the chain was shorter or as long.
C25_Witness ==
  /\ runs = 2 /\ pc = "locStart" /\ lpc = "done" /\ lres.kind = "ok"
  /\ target = 1 /\ Len(ledger) = 3 /\ ledger[3] = 2
  /\ Len(loaded) = 1 /\ loaded[1].epoch = 0
  /\ lres.h = loaded[1].endBlock + 1

\* Records of consecutive epochs meet: the later starts one block after the
\* earlier ends.
Tiled(s) ==
  \A i, j \in 1..Len(s) :
    s[j].epoch = s[i].epoch + 1 => s[j].startBlock = s[i].endBlock + 1

\* C26: tiling. For any two records of epochs N and N + 1, written by the
\* same run or by different runs, in the file or in rows, startBlock of the
\* record of N + 1 is endBlock of the record of N plus 1: the height ranges
\* neither overlap nor leave a gap.
C26_Tiling == Tiled(store) /\ Tiled(rows)

\* The file holds epoch 0 written by the first run and epoch 1 appended by the
\* second.
C26_Witness ==
  /\ runs = 2 /\ append /\ Len(loaded) = 1 /\ Len(store) = 2
  /\ store[1] = loaded[1]
  /\ store[1].epoch = 0 /\ store[2].epoch = 1
  /\ store[2].startBlock = store[1].endBlock + 1

(* ------------------- claims on the writes of one run ------------------ *)

\* C27: at the start of every iteration of the loop, through the iteration up
\* to the push, and at the exit of the loop, lastWrittenLength = rows.length.
\* So the write of the skip branch and the final flush never happen: a step
\* writes the file only when it has just pushed a record, and then the file
\* is rows and lastWrittenLength is rows.length again.
C27_AllWritten ==
  (Running \/ pc = "exit0") => lastWrittenLength = Len(rows)

C27_WriteOnlyAfterPush ==
  (writes' # writes \/ store' # store \/ fileExists' # fileExists) =>
     /\ pc = "snapEnd" /\ pc' = "loop"
     /\ writes' = writes + 1
     /\ Len(rows') = Len(rows) + 1
     /\ fileExists' /\ store' = rows'
     /\ lastWrittenLength' = Len(rows')

C27_NoConditionalWrite ==
  []C27_AllWritten /\ [][writes' = 0 \/ C27_WriteOnlyAfterPush]_vars

\* A run that wrote epoch 0, passed over epoch 1 and left the loop: neither
\* the skip branch nor the final flush wrote.
C27_Witness ==
  /\ pc = "exit0" /\ open = {1} /\ writes = 1
  /\ Len(Appended) = 1 /\ store = rows /\ lastWrittenLength = Len(rows)

\* C28: a run in which no epoch completes writes nothing. As long as the run
\* has appended no record, it has made no write, a file that existed when it
\* started has the content it had then, in append mode and without it, and a
\* file that did not exist has not been created; and no step that leaves the
\* run without an appended record touches the file.
C28_NothingWritten ==
  (pc # "idle" /\ Len(Appended) = 0) =>
     /\ writes = 0
     /\ Persisted = loaded
     /\ fileExists <=> (loaded # <<>>)

C28_FileUntouched ==
  (pc' # "idle" /\ Len(Appended') = 0) => UNCHANGED fileVars

C28_NoWriteWithoutEpoch ==
  []C28_NothingWritten /\ [][C28_FileUntouched]_vars

\* A run without --append found the file of an earlier run, passed over the
\* epoch it was asked for and ended normally: the file is as it was.
C28_Witness ==
  /\ pc = "exit0" /\ ~append /\ open # {} /\ rows = <<>>
  /\ Len(loaded) = 1 /\ fileExists /\ store = loaded /\ writes = 0

(* ------------------- the dashboard: rows and live row ----------------- *)

\* The chain the dashboard is shown on: epoch e on blocks 2e + 1 and 2e + 2.
DashLedger == [h \in 1..(2 * (MaxEpoch + 2)) |-> (h - 1) \div 2]

\* JSON.parse of a record of the file: its numbers are JS numbers.
FromJSON(r) ==
  [ domainId |-> Num(r.domainId), epoch |-> Num(r.epoch),
    startBlock |-> Num(r.startBlock), startHash |-> r.startHash,
    endBlock |-> Num(r.endBlock), endHash |-> r.endHash,
    totalStake |-> r.totalStake,
    operatorStakes |-> r.operatorStakes,
    rewards |-> r.rewards ]

\* The record the backfill writes for epoch e, as the dashboard reads it.
FileRow(e) ==
  FromJSON(NewRow(e, FirstBlock(e), FirstBlock(e + 1) - 1,
                  readSummaryAt(FirstBlock(e)),
                  readSummaryAt(FirstBlock(e + 1) - 1)))

\* The files the fetch may return: [] or records in any order.
DashFiles ==
  {<<>>} \cup SeqsUpTo({FileRow(e) : e \in EpochVals}, MaxDashRows)

\* The object of setLiveRow for the head at height h; noName: the summary has
\* the epoch index under none of the names read, and Number() gives NaN.
LiveRowAt(h, noName) ==
  LET s == readSummaryAt(h) IN
    [ domainId |-> Num(0),
      epoch |-> IF noName THEN NaN ELSE Num(s.epoch),
      startBlock |-> Undefined,
      endBlock |-> Num(h),
      startHash |-> Undefined,
      endHash |-> HashOf(h),
      totalStake |-> s.totalStake,
      operatorStakes |-> s.operatorStakes,
      rewards |-> s.rewards ]

\* a > b and a === b on JS numbers: both are false when one is NaN.
GtAlt(a, b) == a.type = "number" /\ b.type = "number" /\ a.n >= b.n

Gt(a, b) == a.type = "number" /\ b.type = "number" /\ a.n > b.n

StrictEq(a, b) == a.type = "number" /\ b.type = "number" /\ a.n = b.n

\* { ...a, ...b }: every own property of b, a value of undefined included,
\* replaces the property of a.
Spread(a, b) ==
  [f \in DOMAIN a \cup DOMAIN b |-> IF f \in DOMAIN b THEN b[f] ELSE a[f]]

\* The useMemo of mergedRows.
Merged(base, live) ==
  IF live = Null THEN base
  ELSE IF base = <<>> THEN <<live>>
  ELSE LET last == base[Len(base)] IN
    IF Gt(live.epoch, last.epoch) THEN Append(base, live)
    ELSE IF StrictEq(live.epoch, last.epoch)
      THEN [base EXCEPT ![Len(base)] = Spread(last, live)]
      ELSE base

\* The fetch of useEpochs resolves, once: setData and the memo.
DashFetched ==
  /\ dashRows = <<>>
  /\ \E f \in DashFiles :
       /\ dashRows' = f
       /\ mergedRows' = Merged(f, liveRow)
  /\ UNCHANGED <<ledger, locVars, mainVars, fileVars, histVars, readerVars,
                 convVars, liveRow, liveVars>>

\* The new-head callback has read the summary at a head: setLiveRow and the
\* memo.
SetLiveRow ==
  /\ \E h \in 1..Len(ledger), noName \in BOOLEAN :
       /\ liveRow' = LiveRowAt(h, noName)
       /\ mergedRows' = Merged(dashRows, liveRow')
  /\ UNCHANGED <<ledger, locVars, mainVars, fileVars, histVars, readerVars,
                 convVars, dashRows, liveVars>>

InitDash ==
  /\ ledger = DashLedger
  /\ lpc = "idle"
  /\ target = 0 /\ lo = 1 /\ hi = 1 /\ probes = 0 /\ lres = NoResult
  /\ pc = "idle"
  /\ FROM = 0 /\ TO = 0 /\ headEpoch = 0
  /\ startEpoch = 0 /\ endEpoch = 0 /\ append = FALSE
  /\ ep = 0 /\ startBlock = 0 /\ endBlock = 0 /\ startSnap = Null
  /\ existing = <<>> /\ rows = <<>> /\ lastWrittenLength = 0
  /\ fileExists = FALSE /\ store = <<>>
  /\ runs = 0 /\ raised = {} /\ thrown = "none"
  /\ open = {} /\ stored = {} /\ writes = 0 /\ loaded = <<>>
  /\ ReaderIdle /\ ConvIdle /\ DashIdle

NextDash == DashFetched \/ SetLiveRow

SpecDash == InitDash /\ [][NextDash]_vars

\* Epochs go strictly up along s.
AscendingRows(s) ==
  \A i, j \in 1..Len(s) : i < j => Gt(s[j].epoch, s[i].epoch)

\* C29: the merge of the live row. mergedRows is as long as rows or one
\* longer; every row of it but the last is the row of rows at that index; a
\* live row of an epoch below the last row's leaves rows as they are; and when
\* the epochs of rows go strictly up, so do those of mergedRows.
C29_Merge ==
  /\ Len(mergedRows) \in {Len(dashRows), Len(dashRows) + 1}
  /\ \A i \in 1..(Len(mergedRows) - 1) : mergedRows[i] = dashRows[i]
  /\ (liveRow # Null /\ dashRows # <<>>
        /\ Gt(dashRows[Len(dashRows)].epoch, liveRow.epoch)) =>
       mergedRows = dashRows
  /\ AscendingRows(dashRows) => AscendingRows(mergedRows)

\* Two rows, of epochs 0 and 2, and a live row of epoch 1: nothing changes.
C29_Witness ==
  /\ Len(dashRows) = 2 /\ AscendingRows(dashRows) /\ liveRow # Null
  /\ dashRows[2].epoch = Num(2) /\ liveRow.epoch = Num(1)
  /\ mergedRows = dashRows

\* C30 (as claimed): when the live row has the epoch of the last row, the
\* merge changes only endBlock, endHash, totalStake, operatorStakes and
\* rewards of that row: its startBlock and startHash stay as they are in rows.
C30_StartSideKept ==
  (liveRow # Null /\ dashRows # <<>>
     /\ StrictEq(liveRow.epoch, dashRows[Len(dashRows)].epoch)) =>
     LET last == dashRows[Len(dashRows)]
         m == mergedRows[Len(mergedRows)]
     IN /\ Len(mergedRows) = Len(dashRows)
        /\ m.endBlock = liveRow.endBlock /\ m.endHash = liveRow.endHash
        /\ m.totalStake = liveRow.totalStake
        /\ m.operatorStakes = liveRow.operatorStakes
        /\ m.rewards = liveRow.rewards
        /\ m.domainId = last.domainId /\ m.epoch = last.epoch
        /\ m.startBlock = last.startBlock
        /\ m.startHash = last.startHash

(* --------------------- the dashboard: live mode ----------------------- *)

\* The closure of one run of the live effect: its three locals, where its
\* async function stands, and what the library holds for it.
\*   pc    "activate" | "disconnect" | "subscribe" | "returned"
\*   conn  the connection of activate(): "none" | "open" | "closed"
\*   sub   the subscription: "none" | "active" | "cancelled"
\*   cb    the new-head callback: "idle" | "getBlockHash" | "at" | "query"
NewEffect ==
  [ unsub |-> "undefined", apiRef |-> "null", disconnected |-> FALSE,
    pc |-> "activate", conn |-> "none", sub |-> "none",
    cb |-> "idle", header |-> 0, heads |-> 0 ]

\* The effect of the latest commit is the one of the latest click: it has run
\* when live is on, and every cleanup has run when live is off.
Committed ==
  IF isLive
    THEN effects # <<>> /\ ~effects[Len(effects)].disconnected
    ELSE \A e \in DOMAIN effects : effects[e].disconnected

\* onClick of the live button.
Toggle ==
  /\ Committed
  /\ ~isLive => Len(effects) < MaxEffects
  /\ isLive' = ~isLive
  /\ liveStatus' = IF isLive THEN "idle" ELSE liveStatus
  /\ UNCHANGED <<ledger, locVars, mainVars, fileVars, histVars, readerVars,
                 convVars, dashRows, liveRow, mergedRows, lastLiveAt, effects>>

\* The effect runs for isLive = true, up to the call of the async function.
EffectRun ==
  /\ isLive
  /\ IF effects = <<>> THEN TRUE ELSE effects[Len(effects)].disconnected
  /\ effects' = Append(effects, NewEffect)
  /\ liveStatus' = "connecting"
  /\ UNCHANGED <<ledger, locVars, mainVars, fileVars, histVars, readerVars,
                 convVars, dashRows, liveRow, mergedRows, isLive, lastLiveAt>>

\* The cleanup of the effect, run once live is off.
Cleanup ==
  /\ ~isLive
  /\ effects # <<>> /\ ~effects[Len(effects)].disconnected
  /\ LET e == Len(effects)
         c == effects[e]
     IN effects' =
          [effects EXCEPT
             ![e].disconnected = TRUE,
             ![e].sub = IF c.unsub = "function" /\ c.sub = "active"
                          THEN "cancelled" ELSE c.sub,
             ![e].conn = IF c.apiRef = "api" /\ c.conn = "open"
                           THEN "closed" ELSE c.conn]
  /\ UNCHANGED <<ledger, locVars, mainVars, fileVars, histVars, readerVars,
                 convVars, dashRows, liveRow, mergedRows, isLive, liveStatus,
                 lastLiveAt>>

\* activate() has its connection open; the promise is still pending.
ConnOpens(e) ==
  /\ e \in DOMAIN effects
  /\ effects[e].pc = "activate" /\ effects[e].conn = "none"
  /\ effects' = [effects EXCEPT ![e].conn = "open"]
  /\ UNCHANGED <<ledger, locVars, mainVars, fileVars, histVars, readerVars,
                 convVars, dashRows, liveRow, mergedRows, isLive, liveStatus,
                 lastLiveAt>>

\* `if (disconnected)` after the await of activate().
DisconnectedAlt(c) == FALSE

Disconnected(c) == c.disconnected

\* The await of activate() resolves: the connection is disconnected at once
\* when the cleanup has run, else the status is 'live' and the subscription
\* is asked for.
ActivateResolves(e) ==
  /\ e \in DOMAIN effects
  /\ effects[e].pc = "activate" /\ effects[e].conn = "open"
  /\ IF Disconnected(effects[e])
       THEN /\ effects' = [effects EXCEPT ![e].apiRef = "api",
                                          ![e].conn = "closed",
                                          ![e].pc = "disconnect"]
            /\ UNCHANGED liveStatus
       ELSE /\ effects' = [effects EXCEPT ![e].apiRef = "api",
                                          ![e].pc = "subscribe"]
            /\ liveStatus' = "live"
  /\ UNCHANGED <<ledger, locVars, mainVars, fileVars, histVars, readerVars,
                 convVars, dashRows, liveRow, mergedRows, isLive, lastLiveAt>>

\* The import or activate() rejects, no connection made: the outer catch.
ActivateRejects(e) ==
  /\ e \in DOMAIN effects
  /\ effects[e].pc = "activate" /\ effects[e].conn = "none"
  /\ effects' = [effects EXCEPT ![e].pc = "returned"]
  /\ liveStatus' = "error"
  /\ UNCHANGED <<ledger, locVars, mainVars, fileVars, histVars, readerVars,
                 convVars, dashRows, liveRow, mergedRows, isLive, lastLiveAt>>

\* `await api.disconnect()` settles; a rejection is swallowed.
DisconnectSettles(e) ==
  /\ e \in DOMAIN effects
  /\ effects[e].pc = "disconnect"
  /\ effects' = [effects EXCEPT ![e].pc = "returned"]
  /\ UNCHANGED <<ledger, locVars, mainVars, fileVars, histVars, readerVars,
                 convVars, dashRows, liveRow, mergedRows, isLive, liveStatus,
                 lastLiveAt>>

\* subscribeNewHeads resolves: unsub is assigned.
SubscribeResolves(e) ==
  /\ e \in DOMAIN effects
  /\ effects[e].pc = "subscribe"
  /\ effects' = [effects EXCEPT
                   ![e].unsub = "function",
                   ![e].sub = IF effects[e].conn = "open"
                                THEN "active" ELSE "none",
                   ![e].pc = "returned"]
  /\ UNCHANGED <<ledger, locVars, mainVars, fileVars, histVars, readerVars,
                 convVars, dashRows, liveRow, mergedRows, isLive, liveStatus,
                 lastLiveAt>>

\* subscribeNewHeads rejects: the outer catch.
SubscribeRejects(e) ==
  /\ e \in DOMAIN effects
  /\ effects[e].pc = "subscribe"
  /\ effects' = [effects EXCEPT ![e].pc = "returned"]
  /\ liveStatus' = "error"
  /\ UNCHANGED <<ledger, locVars, mainVars, fileVars, histVars, readerVars,
                 convVars, dashRows, liveRow, mergedRows, isLive, lastLiveAt>>

\* A new head reaches the callback of a subscription: the heads are the last
\* MaxHeads blocks of the chain, in order.
NewHead(e) ==
  /\ e \in DOMAIN effects
  /\ effects[e].sub = "active" /\ effects[e].conn = "open"
  /\ effects[e].cb = "idle" /\ effects[e].heads < MaxHeads
  /\ effects' = [effects EXCEPT
                   ![e].cb = "getBlockHash",
                   ![e].header = Len(ledger) - MaxHeads + effects[e].heads + 1,
                   ![e].heads = effects[e].heads + 1]
  /\ UNCHANGED <<ledger, locVars, mainVars, fileVars, histVars, readerVars,
                 convVars, dashRows, liveRow, mergedRows, isLive, liveStatus,
                 lastLiveAt>>

\* An await of the callback resolves: getBlockHash, then api.at. The callback
\* never reads `disconnected`.
CbAwait(e) ==
  /\ e \in DOMAIN effects
  /\ effects[e].cb \in {"getBlockHash", "at"}
  /\ effects' = [effects EXCEPT
                   ![e].cb = IF effects[e].cb = "getBlockHash"
                               THEN "at" ELSE "query"]
  /\ UNCHANGED <<ledger, locVars, mainVars, fileVars, histVars, readerVars,
                 convVars, dashRows, liveRow, mergedRows, isLive, liveStatus,
                 lastLiveAt>>

\* A read of the callback throws (catch {}), or the summary is absent.
CbReturns(e) ==
  /\ e \in DOMAIN effects
  /\ effects[e].cb # "idle"
  /\ effects' = [effects EXCEPT ![e].cb = "idle"]
  /\ UNCHANGED <<ledger, locVars, mainVars, fileVars, histVars, readerVars,
                 convVars, dashRows, liveRow, mergedRows, isLive, liveStatus,
                 lastLiveAt>>

\* Date.now(): later than every time read before.
Now == Num(IF lastLiveAt = Null THEN 1 ELSE lastLiveAt.n + 1)

\* The summary is read: setLiveRow, setLastLiveAt and the memo.
CbSets(e) ==
  /\ e \in DOMAIN effects
  /\ effects[e].cb = "query"
  /\ \E noName \in BOOLEAN :
       liveRow' = LiveRowAt(effects[e].header, noName)
  /\ mergedRows' = Merged(dashRows, liveRow')
  /\ lastLiveAt' = Now
  /\ effects' = [effects EXCEPT ![e].cb = "idle"]
  /\ UNCHANGED <<ledger, locVars, mainVars, fileVars, histVars, readerVars,
                 convVars, dashRows, isLive, liveStatus>>

\* A promise of effect e settles.
Settles(e) ==
  \/ ConnOpens(e) \/ ActivateResolves(e) \/ ActivateRejects(e)
  \/ DisconnectSettles(e) \/ SubscribeResolves(e) \/ SubscribeRejects(e)

\* A step of the callback of effect e.
Callback(e) == NewHead(e) \/ CbAwait(e) \/ CbReturns(e) \/ CbSets(e)

InitLive == InitDash

NextLive ==
  \/ Toggle \/ EffectRun \/ Cleanup
  \/ \E e \in 1..MaxEffects : Settles(e) \/ Callback(e)

SpecLive == InitLive /\ [][NextLive]_vars

\* React runs the cleanup of a committed render, and every pending promise
\* of the connection settles.
SpecLiveFair ==
  /\ SpecLive
  /\ WF_vars(Cleanup)
  /\ \A e \in 1..MaxEffects : WF_vars(Settles(e))

(* ------------------------ claims on live mode ------------------------- *)

\* The cleanup of every run of the effect has run.
AllCleaned == \A e \in DOMAIN effects : effects[e].disconnected

\* A step taken by the async function or the callback of a run of the effect
\* whose cleanup has run applies none of the three updates.
C31_NoLateUpdate ==
  \A e \in DOMAIN effects :
    (effects[e].disconnected /\ effects'[e] # effects[e]) =>
      /\ liveStatus' = liveStatus
      /\ liveRow' = liveRow
      /\ lastLiveAt' = lastLiveAt

\* C31 (as claimed): once live is off and the cleanup has run, liveStatus is
\* 'idle' and stays so, and the cancelled subscription applies no
\* setLiveStatus, setLiveRow or setLastLiveAt, whatever is pending when the
\* cleanup runs.
C31_LiveLifecycle ==
  /\ []((~isLive /\ AllCleaned) => liveStatus = "idle")
  /\ [][C31_NoLateUpdate]_vars

\* C32: no run of the effect whose cleanup has run and whose activate() has
\* settled holds an open connection, and every run of the effect whose
\* cleanup has run ends with its connection disconnected for good: the
\* cleanup disconnects it when it has the api, the async function when
\* activate() resolves after the cleanup.
C32_NoneLeftOpen ==
  \A e \in DOMAIN effects :
    (effects[e].disconnected /\ effects[e].pc # "activate") =>
      effects[e].conn # "open"

Cancelled(e) == e \in DOMAIN effects /\ effects[e].disconnected

Closed(e) ==
  e \in DOMAIN effects /\ effects[e].pc # "activate"
    /\ effects[e].conn # "open"

C32_Disconnected ==
  /\ []C32_NoneLeftOpen
  /\ \A e \in 1..MaxEffects : <>[](Cancelled(e) => Closed(e))

\* Live is off after two runs of the effect: the first had its subscription
\* and was disconnected by the cleanup; the cleanup of the second ran while
\* activate() was pending with its connection open, and the async function
\* disconnected it.
C32_Witness ==
  /\ ~isLive /\ Len(effects) = 2
  /\ effects[1].sub = "cancelled" /\ effects[1].conn = "closed"
  /\ effects[2].disconnected /\ effects[2].pc = "disconnect"
  /\ effects[2].unsub = "undefined" /\ effects[2].conn = "closed"

====
